---- MODULE Spec2Model ----
(***************************************************************************)
(* A model of backup.py of MariaDB-Backup: the sequence allocation and    *)
(* dump pipeline of run_backup and the pruning passes of apply_retention. *)
(* File names are sequences of one-character strings, so the glob         *)
(* patterns and the parsing of the trailing number are modelled by what   *)
(* they do on the characters of a name.                                    *)
(***************************************************************************)
EXTENDS Integers, Sequences, FiniteSets, TLC

(***************************************************************************)
(* Bounds of the model.                                                    *)
(***************************************************************************)
\* run_backup invocations in a behaviour that looks at one invocation
MaxRuns == 1
\* run_backup invocations in a behaviour of repeated invocations
MaxReruns == 2
\* calendar days the clock runs through
MaxDay == 1
\* files in the host directory when the process starts
MaxInitFiles == 2
\* artifacts in the host directory before a stand-alone retention pass
MaxArtifacts == 2
\* largest keep_last of a configured policy
MaxKeep == 2
\* largest max_total_bytes (in size units) of a configured policy
MaxBytes == 2
\* largest artifact size (in size units)
MaxSize == 1
\* largest modification time of a pre-existing artifact
MaxMtime == 1

(***************************************************************************)
(* Characters and strings.                                                 *)
(***************************************************************************)
Digits == {"0", "1", "2", "3", "4", "5", "6", "7", "8", "9"}

DigitVal(c) ==
    CASE c = "0" -> 0 [] c = "1" -> 1 [] c = "2" -> 2 [] c = "3" -> 3
      [] c = "4" -> 4 [] c = "5" -> 5 [] c = "6" -> 6 [] c = "7" -> 7
      [] c = "8" -> 8 [] c = "9" -> 9

DigitChar(d) ==
    CASE d = 0 -> "0" [] d = 1 -> "1" [] d = 2 -> "2" [] d = 3 -> "3"
      [] d = 4 -> "4" [] d = 5 -> "5" [] d = 6 -> "6" [] d = 7 -> "7"
      [] d = 8 -> "8" [] d = 9 -> "9"

\* str(n) of a non-negative integer, as the f-string of the file name formats it
RECURSIVE IntToStr(_)
IntToStr(n) ==
    IF n < 10 THEN <<DigitChar(n)>>
    ELSE IntToStr(n \div 10) \o <<DigitChar(n % 10)>>

\* strftime("%d"), "%m": a number zero-padded to two digits
TwoDigits(n) == <<DigitChar(n \div 10), DigitChar(n % 10)>>

\* s.split(sep)[-1]: what follows the last occurrence of sep (all of s if none)
SplitLast(s, sep) ==
    IF \E i \in 1..Len(s) : s[i] = sep
    THEN LET i == CHOOSE j \in 1..Len(s) :
                      s[j] = sep /\ \A k \in (j+1)..Len(s) : s[k] # sep
         IN SubSeq(s, i + 1, Len(s))
    ELSE s

\* s.split(sep)[0]: what precedes the first occurrence of sep (all of s if none)
SplitFirst(s, sep) ==
    IF \E i \in 1..Len(s) : s[i] = sep
    THEN LET i == CHOOSE j \in 1..Len(s) :
                      s[j] = sep /\ \A k \in 1..(j-1) : s[k] # sep
         IN SubSeq(s, 1, i - 1)
    ELSE s

\* int(s) succeeds on a non-empty run of decimal digits; on the other strings
\* of the alphabet used here (letters, "-", ".") it raises ValueError
IntParses(s) == Len(s) > 0 /\ \A i \in 1..Len(s) : s[i] \in Digits

RECURSIVE IntOf(_)
IntOf(s) ==
    IF Len(s) = 0 THEN 0
    ELSE 10 * IntOf(SubSeq(s, 1, Len(s) - 1)) + DigitVal(s[Len(s)])

\* glob matching of a file name: "*" in a pattern matches any run of
\* characters, "#" stands for the class [0-9], any other character is literal
RECURSIVE GlobMatch(_, _)
GlobMatch(p, s) ==
    IF Len(p) = 0 THEN Len(s) = 0
    ELSE IF Head(p) = "*"
         THEN \E i \in 0..Len(s) : GlobMatch(Tail(p), SubSeq(s, i + 1, Len(s)))
         ELSE /\ Len(s) > 0
              /\ IF Head(p) = "#" THEN Head(s) \in Digits ELSE Head(s) = Head(p)
              /\ GlobMatch(Tail(p), Tail(s))

Ext == <<".", "s", "q", "l", ".", "g", "z">>

(***************************************************************************)
(* Names of databases, dates and files.  A file of the host directory is  *)
(* a record [name, mtime, size, locked]: locked says that unlink() of the *)
(* file raises (PermissionError).  Sizes are counted in units of 1 GiB,   *)
(* the unit of max_gb, so that max_bytes = max_gb * 1024^3 bytes is max_gb *)
(* size units.                                                             *)
(***************************************************************************)
DbA == <<"d", "b">>
DbB == <<"d", "b", "2">>
\* the databases configured for backup; DbB is a database of the same host
\* whose name starts with DbA's and that another configuration backs up
DBs == {DbA}

\* datetime.now().strftime("%d-%m-%Y") on the day-th day of the run
date_str(day) ==
    TwoDigits(18 + day) \o <<"-">> \o TwoDigits(1) \o <<"-">> \o IntToStr(2026)

\* a database of the same host named after DbA and a date (a dated copy of it)
DbC == DbA \o <<"-">> \o date_str(0)

\* f"{db_name}-{date_str}-{n}.sql.gz"
filename(db_name, date, n) ==
    db_name \o <<"-">> \o date \o <<"-">> \o IntToStr(n) \o Ext

\* a file name with an arbitrary text in the place of the number
NameWith(db_name, date, segment) ==
    db_name \o <<"-">> \o date \o <<"-">> \o segment \o Ext

\* the glob of run_backup: f"{db_name}-{date_str}-*.sql.gz"
SequencePattern(db_name, date) ==
    db_name \o <<"-">> \o date \o <<"-", "*">> \o Ext

\* the glob of apply_retention: db_name-[0-9][0-9]-[0-9][0-9]-[0-9][0-9][0-9][0-9]-*.sql.gz
RetentionPattern(db_name) ==
    db_name \o <<"-", "#", "#", "-", "#", "#", "-", "#", "#", "#", "#", "-", "*">> \o Ext

(***************************************************************************)
(* The sequence number of run_backup (lines 133-146).                      *)
(***************************************************************************)
existing_backups(F, db_name, date) ==
    {f \in F : GlobMatch(SequencePattern(db_name, date), f.name)}

\* Path(b).name.split("-")[-1].split(".")[0]
num_part(name) == SplitFirst(SplitLast(name, "-"), ".")

\* the loop of lines 139-144: a name whose num_part int() rejects is skipped
RECURSIVE nums(_)
nums(S) ==
    IF S = {} THEN <<>>
    ELSE LET b == CHOOSE x \in S : TRUE
         IN (IF IntParses(num_part(b.name)) THEN <<IntOf(num_part(b.name))>> ELSE <<>>)
            \o nums(S \ {b})

RECURSIVE PyMax(_)
PyMax(s) ==
    IF Len(s) = 1 THEN s[1]
    ELSE LET m == PyMax(Tail(s)) IN IF s[1] > m THEN s[1] ELSE m

NextFromCount(s) == Len(s) + 1

NextFromMaxNoIncrement(s) == PyMax(s)

\* n = max(nums) + 1
NextFromNums(s) == PyMax(s) + 1

sequence_n(F, db_name, date) ==
    LET existing == existing_backups(F, db_name, date)
    IN IF existing # {} /\ Len(nums(existing)) > 0
       THEN NextFromNums(nums(existing))
       ELSE 1

(***************************************************************************)
(* Retention (get_retention_policy, apply_retention).                      *)
(***************************************************************************)
\* an optional key of the configuration is the set of its values: {} when absent
Absent == {}

DefaultKeepLast == 10
DefaultMaxGb == 5

Policies == [keep_last : 0..MaxKeep, max_bytes : 0..MaxBytes]

\* retention.get("default", {"keep_last": 10, "max_gb": 5.0})
FallbackPolicy == [keep_last |-> DefaultKeepLast, max_bytes |-> DefaultMaxGb]

get_retention_policy(cfg, db_name) ==
    IF db_name \in DOMAIN cfg.overrides THEN cfg.overrides[db_name]
    ELSE IF cfg.default = Absent THEN FallbackPolicy
    ELSE CHOOSE p \in cfg.default : TRUE

\* sorted(glob, key=os.path.getmtime, reverse=True): every order of the files
\* in which no file precedes a newer one (files of equal mtime keep the order
\* the glob listed them in, which is any order)
RECURSIVE NewestFirst(_)
NewestFirst(S) ==
    IF S = {} THEN {<<>>}
    ELSE UNION {{<<f>> \o t : t \in NewestFirst(S \ {f})} :
                f \in {g \in S : \A h \in S : g.mtime >= h.mtime}}

matching(F, db_name) == {f \in F : GlobMatch(RetentionPattern(db_name), f.name)}

ToDeleteOffByOne(backups, keep_last) == SubSeq(backups, keep_last + 2, Len(backups))

\* to_delete = backups[keep_last:]
to_delete(backups, keep_last) == SubSeq(backups, keep_last + 1, Len(backups))

\* for f in to_delete: f.unlink() -- the first unlink that raises ends the loop
RECURSIVE unlink_each(_, _)
unlink_each(F, fs) ==
    IF Len(fs) = 0 THEN [files |-> F, ok |-> TRUE]
    ELSE IF Head(fs).locked THEN [files |-> F, ok |-> FALSE]
    ELSE unlink_each(F \ {Head(fs)}, Tail(fs))

RECURSIVE SumSizes(_)
SumSizes(fs) == IF Len(fs) = 0 THEN 0 ELSE Head(fs).size + SumSizes(Tail(fs))

Front(fs) == SubSeq(fs, 1, Len(fs) - 1)

SizeRuleOnce(F, backups, total_size, max_bytes) ==
    IF total_size > max_bytes /\ Len(backups) > 0
    THEN IF backups[Len(backups)].locked THEN [files |-> F, ok |-> FALSE]
         ELSE [files |-> F \ {backups[Len(backups)]}, ok |-> TRUE]
    ELSE [files |-> F, ok |-> TRUE]

RECURSIVE SizeRuleInclusive(_, _, _, _)
SizeRuleInclusive(F, backups, total_size, max_bytes) ==
    IF total_size >= max_bytes /\ Len(backups) > 0
    THEN LET oldest == backups[Len(backups)]
         IN IF oldest.locked THEN [files |-> F, ok |-> FALSE]
            ELSE SizeRuleInclusive(F \ {oldest}, Front(backups),
                                   total_size - oldest.size, max_bytes)
    ELSE [files |-> F, ok |-> TRUE]

\* a size rule that takes the newest artifact of the list each time
RECURSIVE SizeRuleNewestFirst(_, _, _, _)
SizeRuleNewestFirst(F, backups, total_size, max_bytes) ==
    IF total_size > max_bytes /\ Len(backups) > 0
    THEN LET newest == Head(backups)
         IN IF newest.locked THEN [files |-> F, ok |-> FALSE]
            ELSE SizeRuleNewestFirst(F \ {newest}, Tail(backups),
                                     total_size - newest.size, max_bytes)
    ELSE [files |-> F, ok |-> TRUE]

\* while total_size > max_bytes and backups: oldest = backups.pop(); ...
RECURSIVE size_rule(_, _, _, _)
size_rule(F, backups, total_size, max_bytes) ==
    IF total_size > max_bytes /\ Len(backups) > 0
    THEN LET oldest == backups[Len(backups)]
         IN IF oldest.locked THEN [files |-> F, ok |-> FALSE]
            ELSE size_rule(F \ {oldest}, Front(backups),
                           total_size - oldest.size, max_bytes)
    ELSE [files |-> F, ok |-> TRUE]

\* The outcomes of apply_retention(config, host, db_name) on the directory F:
\* the files left, and whether the pass returned ("ok", or "nodir" when the
\* host directory is missing) or an unlink raised in the count rule
\* ("raised_count") or in the size rule ("raised_size").
apply_retention(F, dir_exists, cfg, db_name) ==
    IF ~dir_exists THEN {[files |-> F, status |-> "nodir"]}
    ELSE
      LET policy == get_retention_policy(cfg, db_name)
          SizePass(G) ==
            {[files |-> sized.files,
              status |-> IF sized.ok THEN "ok" ELSE "raised_size"] :
             sized \in {size_rule(G, refreshed, SumSizes(refreshed), policy.max_bytes) :
                        refreshed \in NewestFirst(matching(G, db_name))}}
          CountPass(counted) ==
            IF ~counted.ok
            THEN {[files |-> counted.files, status |-> "raised_count"]}
            ELSE SizePass(counted.files)
      IN UNION {CountPass(counted) :
                counted \in {unlink_each(F, to_delete(backups, policy.keep_last)) :
                             backups \in NewestFirst(matching(F, db_name))}}

(***************************************************************************)
(* State.                                                                  *)
(***************************************************************************)
VARIABLES
    files,      \* the files of <storage_root>/<host>/
    host_dir,   \* whether <storage_root>/<host>/ exists
    config,     \* config["retention"]: [default, overrides]
    today,      \* the calendar day of datetime.now()
    runs,       \* run_backup invocations so far
    last,       \* what the last run_backup invocation did
    created,    \* <<db_name, day, n>> of every artifact a successful run_backup wrote
    ret,        \* what the last apply_retention pass did
    servers,    \* config["servers"]
    command,    \* args.command
    now,        \* the daemon loop's now, in minutes since 00:00 of day 0
    last_run,   \* the daemon loop's last_run: (host, db) -> time
    loop,       \* where the daemon loop or run_all_now stands
    evals,      \* the scheduling checks made since the current tick began
    fires,      \* the run_backup invocations the loops have made
    restore     \* what the last restore_backup invocation did

vars == <<files, host_dir, config, today, runs, last, created, ret,
          servers, command, now, last_run, loop, evals, fires, restore>>

\* the state of the scheduler and of the restore command
loopvars == <<servers, command, now, last_run, loop, evals, fires>>

NoRun ==
    [how |-> "none", db |-> <<>>, day |-> 0, n |-> 0, name |-> <<>>,
     p1_rc |-> 0, p2_rc |-> 0, events |-> <<>>, killed |-> {},
     retention |-> "not_run", propagated |-> FALSE, before |-> {},
     reused |-> FALSE]

NoRet ==
    [status |-> "none", db |-> <<>>, before |-> {},
     keep_last |-> 0, max_bytes |-> 0]

RetRecord(F, cfg, db_name, status) ==
    [status |-> status, db |-> db_name, before |-> F,
     keep_last |-> get_retention_policy(cfg, db_name).keep_last,
     max_bytes |-> get_retention_policy(cfg, db_name).max_bytes]

NoOverrides == [d \in {} |-> FallbackPolicy]

\* last_run = {}
NoLastRun == [k \in {} |-> 0]

\* a loop that is between two passes over the servers (time.sleep), inside a
\* pass at entry e of server s with the names in pending still to handle,
\* ended by an exception ("crashed"), or returned (run_all_now)
Asleep == [pc |-> "sleep", s |-> 0, e |-> 0, pending |-> <<>>]

\* no external command has been given a way to go
NoExt ==
    [query |-> "none", drop |-> "none", drop_rc |-> 0, client |-> "none",
     client_rc |-> 0]

NoRestore ==
    [outcome |-> "none", ref |-> <<>>, clean |-> FALSE, host |-> <<>>,
     db_name |-> <<>>, events |-> <<>>, started |-> <<>>, warnings |-> {},
     ext |-> NoExt]

\* no loop is running and no restore has been made
NoCommand ==
    /\ servers = <<>>
    /\ command = "none"
    /\ now = 0
    /\ last_run = NoLastRun
    /\ loop = Asleep
    /\ evals = <<>>
    /\ fires = {}
    /\ restore = NoRestore

(***************************************************************************)
(* run_backup.                                                             *)
(***************************************************************************)
\* How far the dump pipeline gets: mkdir raises; open(filepath, "wb") raises;
\* Popen of the producer or of the compressor raises (binary missing);
\* communicate() times out; or both processes exit, with return codes.
Hows == {"mkdir_error", "open_error", "dump_missing", "gzip_missing",
         "timeout", "exited"}

ReturnCodes == {0, 1}

KillOnlyProducer == {"p1"}

\* p1.kill(); p2.kill()
killed_on_timeout == {"p1", "p2"}

KeepPartial(F, name) == F

\* if filepath.exists(): filepath.unlink()
remove_partial(F, name) == {f \in F : f.name # name}

\* the exception the try block raises before the success message, if any
dump_error(how, p1_rc, p2_rc) ==
    CASE how = "open_error" -> "open_error"
      [] how = "dump_missing" -> "tool_missing"
      [] how = "gzip_missing" -> "gzip_missing"
      [] how = "timeout" -> "timeout"
      [] how = "exited" /\ p1_rc # 0 -> "producer_failed"
      [] how = "exited" /\ p1_rc = 0 /\ p2_rc # 0 -> "compression_failed"
      [] OTHER -> "none"

run_backup(db_name, how, p1_rc, p2_rc, size) ==
    /\ how = "mkdir_error" => ~host_dir
    /\ runs' = runs + 1
    /\ UNCHANGED <<config, today>>
    /\ \E n \in {sequence_n(files, db_name, date_str(today))} :
       \E name \in {filename(db_name, date_str(today), n)} :
       \E err \in {dump_error(how, p1_rc, p2_rc)} :
       \* open(filepath, "wb") creates the file; the compressor fills it
       \E written \in {{f \in files : f.name # name} \cup
                       {[name |-> name, mtime |-> MaxMtime + 1 + runs,
                         size |-> size, locked |-> FALSE]}} :
       LET run == [NoRun EXCEPT !.how = how, !.db = db_name, !.day = today,
                                !.p1_rc = p1_rc, !.p2_rc = p2_rc,
                                !.before = files]
           alloc == [run EXCEPT !.n = n, !.name = name,
                                !.reused = (<<db_name, today, n>> \in created)]
       IN IF how = "mkdir_error"
          THEN \* line 129 is outside the try block: the exception leaves run_backup
               /\ last' = [run EXCEPT !.propagated = TRUE]
               /\ UNCHANGED <<files, host_dir, created, ret>>
          ELSE IF err # "none"
          THEN \* except: one failure message, the partial file is removed
               /\ host_dir' = TRUE
               /\ files' = remove_partial(
                             IF how = "open_error" THEN files ELSE written, name)
               /\ last' = [alloc EXCEPT
                             !.events = <<[kind |-> "failure", error |-> err]>>,
                             !.killed = IF how = "timeout"
                                        THEN killed_on_timeout ELSE {}]
               /\ UNCHANGED <<created, ret>>
          ELSE \* success message, then apply_retention inside the try block
               /\ host_dir' = TRUE
               /\ \E out \in apply_retention(written, TRUE, config, db_name) :
                    /\ ret' = RetRecord(written, config, db_name, out.status)
                    /\ IF out.status = "ok"
                       THEN /\ files' = out.files
                            /\ created' = created \cup {<<db_name, today, n>>}
                            /\ last' = [alloc EXCEPT
                                          !.events = <<[kind |-> "success",
                                                        error |-> "none"]>>,
                                          !.retention = "ok"]
                       ELSE \* the unlink's exception reaches the except block
                            /\ files' = remove_partial(out.files, name)
                            /\ UNCHANGED created
                            /\ last' = [alloc EXCEPT
                                          !.events = <<[kind |-> "success",
                                                        error |-> "none"],
                                                       [kind |-> "failure",
                                                        error |-> "unlink_error"]>>,
                                          !.retention = "raised"]

\* one invocation, with every way the pipeline can go; the size of the
\* artifact matters only when the dump succeeds
Invocation ==
    \E db_name \in DBs, how \in Hows, p1_rc \in ReturnCodes, p2_rc \in ReturnCodes,
       size \in 1..MaxSize :
        /\ how # "exited" => p1_rc = 0 /\ p2_rc = 0
        /\ dump_error(how, p1_rc, p2_rc) # "none" \/ how = "mkdir_error" => size = 1
        /\ run_backup(db_name, how, p1_rc, p2_rc, size)

RunBackup == runs < MaxRuns /\ Invocation /\ UNCHANGED <<loopvars, restore>>

Rerun == runs < MaxReruns /\ Invocation /\ UNCHANGED <<loopvars, restore>>

\* midnight passes: datetime.now() is on the next day
NextDay ==
    /\ today < MaxDay
    /\ today' = today + 1
    /\ UNCHANGED <<files, host_dir, config, runs, last, created, ret>>
    /\ UNCHANGED <<loopvars, restore>>

(***************************************************************************)
(* The process: a host directory with whatever earlier runs, other tools   *)
(* or the operator left in it, and run_backup invocations over the days.   *)
(***************************************************************************)
Segments == {<<"1">>, <<"0", "3">>, <<"x">>, <<"a", "-", "2">>, <<"2", ".", "b">>}

LockedSegments == {<<"1">>}

InitPool ==
    {[name |-> NameWith(DbA, date_str(0), seg), mtime |-> 0, size |-> 1,
      locked |-> FALSE] : seg \in Segments}
    \cup {[name |-> NameWith(DbA, date_str(0), seg), mtime |-> 0, size |-> 1,
           locked |-> TRUE] : seg \in LockedSegments}
    \cup {[name |-> NameWith(db_name, date_str(0), <<"1">>), mtime |-> 0, size |-> 1,
           locked |-> FALSE] : db_name \in {DbB, DbC}}

UniqueNames(F) == \A f, g \in F : f.name = g.name => f = g

BackupConfigs ==
    {[default |-> {p}, overrides |-> NoOverrides] :
        p \in {q \in Policies : \/ q.max_bytes = MaxBytes
                                 \/ (q.keep_last = MaxKeep /\ q.max_bytes = 0)}}
    \cup {[default |-> Absent, overrides |-> NoOverrides]}
    \cup {[default |-> Absent,
           overrides |-> [d \in {DbA} |-> [keep_last |-> 1, max_bytes |-> MaxBytes]]]}

Init ==
    /\ host_dir \in BOOLEAN
    /\ files \in {F \in SUBSET InitPool :
                    /\ Cardinality(F) <= MaxInitFiles
                    /\ UniqueNames(F)
                    /\ ~host_dir => F = {}}
    /\ config \in BackupConfigs
    /\ today = 0
    /\ runs = 0
    /\ last = NoRun
    /\ created = {}
    /\ ret = NoRet
    /\ NoCommand

Next == RunBackup \/ NextDay

Spec == Init /\ [][Next]_vars

\* the same process over several invocations
NextReruns == Rerun \/ NextDay

SpecReruns == Init /\ [][NextReruns]_vars

(***************************************************************************)
(* A retention pass on its own, as test_apply_retention_count runs it: a   *)
(* host directory holding up to MaxArtifacts artifacts of DbA, numbered in *)
(* the order of their modification times, next to an artifact of DbB.      *)
(***************************************************************************)
Attributes == [mtime : 0..MaxMtime, size : 0..MaxSize, locked : BOOLEAN]

ArtifactSets ==
    {{[name |-> filename(DbA, date_str(0), i), mtime |-> a[i].mtime,
       size |-> a[i].size, locked |-> a[i].locked] : i \in DOMAIN a} :
     a \in UNION {{b \in [1..j -> Attributes] :
                     \A i \in 1..(j - 1) : b[i].mtime <= b[i + 1].mtime} :
                  j \in 0..MaxArtifacts}}

\* three artifacts of DbA written one after the other, each of any size, all
\* of which can be deleted
ThreeArtifacts ==
    {{[name |-> filename(DbA, date_str(0), i), mtime |-> i - 1,
       size |-> sz[i], locked |-> FALSE] : i \in 1..3} :
     sz \in [1..3 -> 0..MaxSize]}

\* the host directory is shared: an artifact of DbB lies next to DbA's
OtherFiles ==
    {[name |-> filename(DbB, date_str(0), 1), mtime |-> 0, size |-> MaxSize,
      locked |-> FALSE]}

RetentionConfigs ==
    {[default |-> {p}, overrides |-> NoOverrides] : p \in Policies}
    \cup {[default |-> Absent, overrides |-> NoOverrides]}

InitRetention ==
    /\ host_dir \in BOOLEAN
    /\ files \in IF host_dir
                THEN {A \cup OtherFiles : A \in ArtifactSets \cup ThreeArtifacts}
                ELSE {{}}
    /\ config \in RetentionConfigs
    /\ today = 0
    /\ runs = 0
    /\ last = NoRun
    /\ created = {}
    /\ ret = NoRet
    /\ NoCommand

\* apply_retention(config, host, db_name)
ApplyRetention ==
    \E db_name \in DBs :
    \E out \in apply_retention(files, host_dir, config, db_name) :
        /\ files' = out.files
        /\ ret' = RetRecord(files, config, db_name, out.status)
        /\ UNCHANGED <<host_dir, config, today, runs, last, created>>
        /\ UNCHANGED <<loopvars, restore>>

NextRetention == ApplyRetention

SpecRetention == InitRetention /\ [][NextRetention]_vars

(***************************************************************************)
(* The scheduler: the daemon loop of main and run_all_now.  Time is        *)
(* counted in minutes since 00:00 of day 0.  The servers of the            *)
(* configuration all name one host, whose directory is the one modelled    *)
(* above; a database entry is a name or "all" (a dict entry contributes    *)
(* its name).                                                              *)
(***************************************************************************)
Host == <<"h">>

All == <<"a", "l", "l">>

\* now.date(), and datetime.combine(date, time)
date(t) == t \div 1440
combine(day, time) == day * 1440 + time

\* datetime.timedelta(hours=n)
timedelta(hours) == hours * 60

AllDigits(s) == Len(s) > 0 /\ \A i \in 1..Len(s) : s[i] \in Digits

\* what follows the first occurrence of sep
AfterFirst(s, sep) ==
    LET i == CHOOSE j \in 1..Len(s) : s[j] = sep /\ \A k \in 1..(j-1) : s[k] # sep
    IN SubSeq(s, i + 1, Len(s))

\* datetime.datetime.strptime(s, "%H:%M") returns (does not raise ValueError):
\* s is one or two digits, ":", one or two digits, with nothing left over;
\* two hour digits are at most 23 and two minute digits at most 59
strptime_ok(s) ==
    /\ \E i \in 1..Len(s) : s[i] = ":"
    /\ \E h \in {SplitFirst(s, ":")}, m \in {AfterFirst(s, ":")} :
          /\ AllDigits(h) /\ Len(h) <= 2 /\ (Len(h) = 2 => IntOf(h) <= 23)
          /\ AllDigits(m) /\ Len(m) <= 2 /\ (Len(m) = 2 => IntOf(m) <= 59)

\* strptime(s, "%H:%M").time(), as minutes after midnight
sched_time(s) == IntOf(SplitFirst(s, ":")) * 60 + IntOf(AfterFirst(s, ":"))

today_run_time(t, s) == combine(date(t), sched_time(s))

FixedTimeAnyTick(s, key, t, lr) ==
    strptime_ok(s) /\ t >= today_run_time(t, s)

FixedTimeAfterTrigger(s, key, t, lr) ==
    /\ strptime_ok(s)
    /\ t > today_run_time(t, s)
    /\ (key \notin DOMAIN lr \/ lr[key] < today_run_time(t, s))

FixedTimeInTriggerMinute(s, key, t, lr) ==
    /\ strptime_ok(s)
    /\ t = today_run_time(t, s)
    /\ (key \notin DOMAIN lr \/ lr[key] < today_run_time(t, s))

\* lines 441-449 (and 409-416): a ValueError of strptime leaves should_run False
fixed_time_due(s, key, t, lr) ==
    /\ strptime_ok(s)
    /\ t >= today_run_time(t, s)
    /\ (key \notin DOMAIN lr \/ lr[key] < today_run_time(t, s))

IntervalStrictlyLonger(n, key, t, lr) ==
    key \notin DOMAIN lr \/ (t - lr[key]) > timedelta(n)

\* lines 451-454 (and 417-420)
interval_due(n, key, t, lr) ==
    key \notin DOMAIN lr \/ (t - lr[key]) >= timedelta(n)

PolicyFallsThrough(server, key, t, lr) ==
    \/ /\ server.schedule # Absent
       /\ fixed_time_due(CHOOSE x \in server.schedule : TRUE, key, t, lr)
    \/ /\ server.schedule = Absent
          \/ ~strptime_ok(CHOOSE x \in server.schedule : TRUE)
       /\ server.interval_hours # Absent
       /\ interval_due(CHOOSE n \in server.interval_hours : TRUE, key, t, lr)

\* if "schedule" in server: ... elif "interval_hours" in server: ...
policy_due(server, key, t, lr) ==
    IF server.schedule # Absent
    THEN fixed_time_due(CHOOSE x \in server.schedule : TRUE, key, t, lr)
    ELSE IF server.interval_hours # Absent
    THEN interval_due(CHOOSE n \in server.interval_hours : TRUE, key, t, lr)
    ELSE FALSE

\* databases = server.get("databases", []); if not databases: databases = ["all"]
databases(server) ==
    IF server.databases = <<>> THEN <<All>> ELSE server.databases

\* what get_databases(server) can return: [] when the query fails
Discoveries == {<<>>, <<DbA, DbB>>}

Returned == [pc |-> "returned", s |-> 0, e |-> 0, pending |-> <<>>]

Crashed == [pc |-> "crashed", s |-> 0, e |-> 0, pending |-> <<>>]

\* the for loops over servers and database entries, from entry e of server
\* s on: the next unit to handle, or end when the pass is over
RECURSIVE Enter(_, _, _, _)
Enter(srv, s, e, end) ==
    IF s > Len(srv) THEN {end}
    ELSE IF e > Len(databases(srv[s])) THEN Enter(srv, s + 1, 1, end)
    ELSE IF databases(srv[s])[e] = All
    THEN UNION {IF server_dbs = <<>>
                THEN Enter(srv, s, e + 1, end)
                ELSE {[pc |-> "eval", s |-> s, e |-> e, pending |-> server_dbs]} :
                server_dbs \in Discoveries}
    ELSE {[pc |-> "eval", s |-> s, e |-> e,
           pending |-> <<databases(srv[s])[e]>>]}

Advance(srv, l, end) ==
    IF Len(l.pending) > 1
    THEN {[l EXCEPT !.pending = Tail(l.pending)]}
    ELSE Enter(srv, l.s, l.e + 1, end)

\* the ways a dump goes that the loops are run with
LoopHows == {"mkdir_error", "exited"}

Outcome(how, p1_rc) ==
    IF how = "mkdir_error" THEN "raised"
    ELSE IF dump_error(how, p1_rc, 0) = "none" THEN "ok" ELSE "failed"

\* minutes after midnight at which a pass of the daemon loop can begin
TickMinutes == {125, 130, 484, 485}

\* while True: now = datetime.datetime.now(); for server in ...
\* (the first pass, and every pass after time.sleep(60))
Tick ==
    /\ command = "daemon"
    /\ loop.pc = "sleep"
    /\ \E t \in {d * 1440 + m : d \in 0..MaxDay, m \in TickMinutes} :
          /\ t > now
          /\ now' = t
          /\ today' = date(t)
    /\ loop' \in Enter(servers, 1, 1, Asleep)
    /\ evals' = <<>>
    /\ UNCHANGED <<files, host_dir, config, runs, last, created, ret>>
    /\ UNCHANGED <<servers, command, last_run, fires, restore>>

\* one unit of the daemon loop: the scheduling check, and for a unit that
\* should run, run_backup and last_run[key] = now
Evaluate ==
    /\ command = "daemon"
    /\ loop.pc = "eval"
    /\ \E server \in {servers[loop.s]}, db_name \in {Head(loop.pending)} :
       \E key \in {<<server.host, db_name>>} :
       \E should_run \in {policy_due(server, key, now, last_run)} :
          /\ evals' = Append(evals,
                        [key |-> key, s |-> loop.s, e |-> loop.e, at |-> now,
                         prior |-> IF key \in DOMAIN last_run
                                   THEN {last_run[key]} ELSE {},
                         due |-> should_run])
          /\ IF should_run
             THEN \E how \in LoopHows, p1_rc \in ReturnCodes :
                    /\ how # "exited" => p1_rc = 0
                    /\ run_backup(db_name, how, p1_rc, 0, 1)
                    /\ fires' = fires \cup
                                  {[key |-> key, s |-> loop.s, e |-> loop.e,
                                    at |-> now, outcome |-> Outcome(how, p1_rc)]}
                    /\ IF how = "mkdir_error"
                       THEN \* the exception of line 129 leaves run_backup and main
                            /\ loop' = Crashed
                            /\ UNCHANGED last_run
                       ELSE /\ last_run' = (key :> now) @@ last_run
                            /\ loop' \in Advance(servers, loop, Asleep)
             ELSE /\ loop' \in Advance(servers, loop, Asleep)
                  /\ UNCHANGED <<files, host_dir, config, today, runs, last,
                                 created, ret, last_run, fires>>
    /\ UNCHANGED <<servers, command, now, restore>>

\* one unit of run_all_now: run_backup, whatever the schedule
RunNow ==
    /\ command = "now"
    /\ loop.pc = "eval"
    /\ \E server \in {servers[loop.s]}, db_name \in {Head(loop.pending)} :
       \E how \in LoopHows, p1_rc \in ReturnCodes :
          /\ how # "exited" => p1_rc = 0
          /\ run_backup(db_name, how, p1_rc, 0, 1)
          /\ fires' = fires \cup
                        {[key |-> <<server.host, db_name>>, s |-> loop.s,
                          e |-> loop.e, at |-> now,
                          outcome |-> Outcome(how, p1_rc)]}
          /\ IF how = "mkdir_error"
             THEN loop' = Crashed
             ELSE loop' \in Advance(servers, loop, Returned)
    /\ UNCHANGED <<servers, command, now, last_run, evals, restore>>

(***************************************************************************)
(* The configurations the loops are run with.  A server has a schedule, an *)
(* interval, both or neither; Absent is a key that is not in the server.   *)
(***************************************************************************)
Time0200 == <<"0", "2", ":", "0", "0">>
Time0805 == <<"0", "8", ":", "0", "5">>
Time2500 == <<"2", "5", ":", "0", "0">>
Time2am == <<"2", "a", "m">>

Schedules == {Time0200, Time0805, Time2500, Time2am}

Intervals == {6}

Server(schedule, interval_hours, dbs) ==
    [host |-> Host, schedule |-> schedule, interval_hours |-> interval_hours,
     databases |-> dbs]

Policy == ({Absent} \cup {{x} : x \in Schedules}) \X ({Absent} \cup {{n} : n \in Intervals})

ServerLists ==
    {<<Server(p[1], p[2], <<DbA, DbA>>)>> : p \in Policy}
    \cup {<<Server({Time2500}, Intervals, dbs)>> :
            dbs \in {<<>>, <<DbA, DbB>>, <<All, DbA>>}}
    \cup {<<Server({Time0805}, Absent, <<All, DbA>>)>>}
    \cup {<<Server(p[1], p[2], <<DbA>>), Server({x}, Absent, <<DbA>>)>> :
            p \in Policy, x \in {Time0200, Time0805}}

LoopConfig ==
    [default |-> {[keep_last |-> 1, max_bytes |-> MaxBytes]},
     overrides |-> NoOverrides]

InitLoops ==
    /\ host_dir \in BOOLEAN
    /\ files = {}
    /\ config = LoopConfig
    /\ today = 0
    /\ runs = 0
    /\ last = NoRun
    /\ created = {}
    /\ ret = NoRet
    /\ servers \in ServerLists
    /\ command \in {"daemon", "now"}
    /\ now = 0
    /\ last_run = NoLastRun
    /\ loop \in IF command = "now" THEN Enter(servers, 1, 1, Returned) ELSE {Asleep}
    /\ evals = <<>>
    /\ fires = {}
    /\ restore = NoRestore

NextLoops == Tick \/ Evaluate \/ RunNow

SpecLoops == InitLoops /\ [][NextLoops]_vars

(***************************************************************************)
(* restore_backup.  A reference is a string; the artifact is looked up in  *)
(* the directory of the host the reference names, and only the directory   *)
(* of Host is modelled to exist.                                           *)
(***************************************************************************)
\* the number of pieces of s.split(sep)
RECURSIVE SplitCount(_, _)
SplitCount(s, sep) ==
    IF Len(s) = 0 THEN 1
    ELSE (IF Head(s) = sep THEN 1 ELSE 0) + SplitCount(Tail(s), sep)

\* s.endswith(suffix)
EndsWith(s, suffix) ==
    /\ Len(s) >= Len(suffix)
    /\ SubSeq(s, Len(s) - Len(suffix) + 1, Len(s)) = suffix

\* how the external commands of a restore go: the table query of a clean
\* restore cannot be started, exits non-zero, or lists tables or none; the
\* drop batch cannot be started (subprocess.run raises OSError: the binary is
\* missing, or the one argument holding every DROP statement is longer than
\* the system allows) or exits, zero or not; the client cannot be started or
\* exits
TableQueries == {"cannot_start", "failed", "no_tables", "tables"}

DropRuns == {"cannot_start", "exited"}

ClientRuns == {"cannot_start", "exited"}

\* a lookup that takes the first server whatever its host
ServerOfAnyHost(srv, host) == IF srv # <<>> THEN {srv[1]} ELSE {}

\* the first server of the configuration with s["host"] == host, if any
server_cfg(srv, host) ==
    IF \E i \in DOMAIN srv : srv[i].host = host
    THEN {srv[CHOOSE i \in DOMAIN srv :
                /\ srv[i].host = host
                /\ \A j \in 1..(i - 1) : srv[j].host # host]}
    ELSE {}

\* lines 255-312: the try block, for a reference that was accepted
restore_pipeline(r, ext) ==
    LET query == ext.query
        drop == ext.drop
        drop_rc == ext.drop_rc
        client == ext.client
        client_rc == ext.client_rc
        cleaned ==
          IF ~r.clean THEN [started |-> <<>>, warnings |-> {}, raised |-> FALSE]
          ELSE IF query = "cannot_start"
          THEN [started |-> <<>>, warnings |-> {}, raised |-> TRUE]
          ELSE IF query = "failed"
          THEN [started |-> <<"show_tables">>, warnings |-> {"tables_list"},
                raised |-> FALSE]
          ELSE IF query = "no_tables"
          THEN [started |-> <<"show_tables">>, warnings |-> {}, raised |-> FALSE]
          ELSE IF drop = "cannot_start"
          THEN [started |-> <<"show_tables">>, warnings |-> {}, raised |-> TRUE]
          ELSE [started |-> <<"show_tables", "drop">>,
                warnings |-> IF drop_rc # 0 THEN {"drop"} ELSE {},
                raised |-> FALSE]
        failure(started, error) ==
          [r EXCEPT !.outcome = error, !.started = started, !.ext = ext,
                    !.warnings = cleaned.warnings,
                    !.events = <<[kind |-> "restore_failure", error |-> error]>>]
    IN IF cleaned.raised THEN failure(cleaned.started, "exception")
       ELSE IF client = "cannot_start"
       THEN failure(cleaned.started \o <<"zcat">>, "exception")
       ELSE IF client_rc # 0
       THEN failure(cleaned.started \o <<"zcat", "client">>, "client_failed")
       ELSE [r EXCEPT !.outcome = "success",
                      !.started = cleaned.started \o <<"zcat", "client">>,
                      !.warnings = cleaned.warnings, !.ext = ext,
                      !.events = <<[kind |-> "restore_success", error |-> "none"]>>]

\* restore_backup(config, backup_ref, clean_restore) in the directory F, with
\* the external commands going as ext says
restore_backup(F, dir_exists, srv, backup_ref, clean_restore, ext) ==
    LET r == [NoRestore EXCEPT !.ref = backup_ref, !.clean = clean_restore]
    IN IF SplitCount(backup_ref, "/") # 2
       THEN \* ValueError of the unpacking: a message is printed
            [r EXCEPT !.outcome = "invalid_reference"]
       ELSE
         LET host == SplitFirst(backup_ref, "/")
             backup_name == AfterFirst(backup_ref, "/")
             file_name == IF EndsWith(backup_name, Ext) THEN backup_name
                          ELSE backup_name \o Ext
             db_name == SplitFirst(backup_name, "-")
             parsed == [r EXCEPT !.host = host, !.db_name = db_name]
         IN IF ~(host = Host /\ dir_exists /\ \E f \in F : f.name = file_name)
            THEN [parsed EXCEPT !.outcome = "not_found"]
            ELSE IF server_cfg(srv, host) = {}
            THEN [parsed EXCEPT !.outcome = "unknown_host"]
            ELSE restore_pipeline(parsed, ext)

OtherHost == <<"g">>

Stem == DbA \o <<"-">> \o date_str(0) \o <<"-", "1">>

\* references given on the command line
Refs ==
    {Host \o <<"/">> \o Stem,
     Host \o <<"/">> \o Stem \o Ext,
     Host \o <<"/">> \o DbA \o <<"-">> \o date_str(0) \o <<"-", "2">>,
     OtherHost \o <<"/">> \o Stem,
     Stem,
     Host \o <<"/">> \o DbA \o <<"/">> \o Stem}

Restore ==
    /\ command = "restore"
    /\ \E backup_ref \in Refs, clean_restore \in BOOLEAN, query \in TableQueries,
          drop \in DropRuns, drop_rc \in ReturnCodes, client \in ClientRuns,
          client_rc \in ReturnCodes :
          /\ ~clean_restore => query = "tables"
          /\ query # "tables" => drop = "exited"
          /\ (query # "tables" \/ drop # "exited") => drop_rc = 0
          /\ client # "exited" => client_rc = 0
          /\ restore' = restore_backup(files, host_dir, servers, backup_ref,
                                       clean_restore,
                                       [query |-> query, drop |-> drop,
                                        drop_rc |-> drop_rc, client |-> client,
                                        client_rc |-> client_rc])
    /\ UNCHANGED <<files, host_dir, config, today, runs, last, created, ret>>
    /\ UNCHANGED loopvars

\* a server entry of another host
OtherServer == [Server(Absent, Absent, <<DbA>>) EXCEPT !.host = OtherHost]

RestoreServerLists ==
    {<<>>,
     <<Server(Absent, Absent, <<DbA>>)>>,
     <<OtherServer>>,
     <<OtherServer, Server(Absent, Absent, <<DbA>>)>>}

InitRestore ==
    /\ host_dir \in BOOLEAN
    /\ files \in IF host_dir
                THEN {A \cup O : A \in {{}, {[name |-> Stem \o Ext, mtime |-> 0,
                                              size |-> 1, locked |-> FALSE]}},
                                 O \in {{}, OtherFiles}}
                ELSE {{}}
    /\ config = LoopConfig
    /\ today = 0
    /\ runs = 0
    /\ last = NoRun
    /\ created = {}
    /\ ret = NoRet
    /\ servers \in RestoreServerLists
    /\ command = "restore"
    /\ now = 0
    /\ last_run = NoLastRun
    /\ loop = Asleep
    /\ evals = <<>>
    /\ fires = {}
    /\ restore = NoRestore

NextRestore == Restore

SpecRestore == InitRestore /\ [][NextRestore]_vars

(***************************************************************************)
(* Properties of run_backup.                                               *)
(***************************************************************************)
\* the last invocation got as far as computing its destination path
Allocated == last.how \notin {"none", "mkdir_error"}

\* producer and compressor both exited zero in the last invocation
DumpSucceeded == last.how = "exited" /\ last.p1_rc = 0 /\ last.p2_rc = 0

DestinationExists == \E f \in files : f.name = last.name

EventKinds == {last.events[i].kind : i \in 1..Len(last.events)}

\* the last invocation ended in the except block
EndedInFailure == "failure" \in EventKinds

\* C1: when producer and compressor both exit zero, a retention pass that
\* raises does not downgrade the result: no failure is reported and the
\* artifact just written still exists.
C1_RetentionFailureKeepsSuccess ==
    (DumpSucceeded /\ last.retention = "raised") =>
        /\ EventKinds = {"success"}
        /\ DestinationExists

\* C2: every invocation of run_backup that reaches the dump emits exactly one
\* notification event, a success or a failure.
C2_ExactlyOneEvent ==
    Allocated => Len(last.events) = 1

\* C3: after an invocation that ends in failure no file exists at the
\* destination path computed for it.
C3_FailureLeavesNoFile ==
    (Allocated /\ EndedInFailure) => ~DestinationExists

\* a producer that exited non-zero, after the partial file had been created
C3_Witness ==
    /\ last.how = "exited" /\ last.p1_rc # 0
    /\ last.events = <<[kind |-> "failure", error |-> "producer_failed"]>>
    /\ last.before # {}
    /\ ~DestinationExists

\* C4: on a timeout both processes are killed, the invocation ends with a
\* timeout failure and no success, the retention pass does not run, and the
\* destination file does not exist.
C4_Timeout ==
    last.how = "timeout" =>
        /\ last.killed = {"p1", "p2"}
        /\ last.events = <<[kind |-> "failure", error |-> "timeout"]>>
        /\ last.retention = "not_run"
        /\ ~DestinationExists

\* a timeout in a directory that holds earlier artifacts, which all stay
C4_Witness ==
    /\ last.how = "timeout"
    /\ last.killed = {"p1", "p2"}
    /\ last.before # {}
    /\ files = last.before

\* C5: a sequence number that a successful backup of the database used on a
\* day is never given to a later artifact of that database and day.
C5_NoReuse ==
    DumpSucceeded => ~last.reused

\* the numbers of the artifacts of (db_name, day) existing in the directory F
ArtifactNumbers(F, db_name, day) ==
    {IntOf(num_part(f.name)) :
        f \in {g \in F : /\ GlobMatch(SequencePattern(db_name, date_str(day)), g.name)
                         /\ IntParses(num_part(g.name))}}

SetMax(S) == CHOOSE m \in S : \A k \in S : k <= m

SmallestUnused(S) ==
    CHOOSE k \in 1..(Cardinality(S) + 1) : k \notin S /\ \A j \in 1..(k - 1) : j \in S

LastNumbers == ArtifactNumbers(last.before, last.db, last.day)

\* C6 as stated: the allocated number is the smallest positive integer that
\* is not the number of an existing artifact of the database and date.
C6_SmallestUnused ==
    Allocated => \A existing \in {LastNumbers} : last.n = SmallestUnused(existing)

\* C6 as amended: the allocated number is positive and larger than the number
\* of every existing artifact of the database and date (so it is the number
\* of none of them); it is the smallest unused positive integer whenever the
\* existing numbers leave no gap below their maximum.
C6_AboveAllExisting ==
    Allocated =>
        \A existing \in {LastNumbers} :
            /\ last.n >= 1
            /\ last.n \notin existing
            /\ \A m \in existing : m < last.n
            /\ (\A m \in existing : \A j \in 1..m : j \in existing)
                  => last.n = SmallestUnused(existing)

\* an allocation over a numbering with a gap: 3 exists, 2 does not
C6_Witness ==
    /\ Allocated
    /\ \E existing \in {LastNumbers} : 3 \in existing /\ 2 \notin existing
    /\ last.n = 4

Before == matching(ret.before, ret.db)
Remaining == matching(files, ret.db)

\* the last pass went through the rules (the host directory existed)
Pruned == ret.status \in {"ok", "raised_count", "raised_size"}

DistinctMtimes(A) == \A f, g \in A : f.mtime = g.mtime => f = g

\* the j newest artifacts of A, for distinct modification times
Newest(A, j) == {f \in A : Cardinality({g \in A : g.mtime > f.mtime}) < j}

RECURSIVE TotalSize(_)
TotalSize(A) ==
    IF A = {} THEN 0
    ELSE LET f == CHOOSE x \in A : TRUE IN f.size + TotalSize(A \ {f})

NoneLocked(A) == \A f \in A : ~f.locked

\* C8 as stated (for artifacts that can all be deleted): with distinct
\* modification times and keep_last = k < N, exactly the k newest remain.
C8_KeepsKNewest ==
    Pruned => \A before \in {Before}, remaining \in {Remaining} :
        (NoneLocked(before) /\ DistinctMtimes(before)
                            /\ ret.keep_last < Cardinality(before)) =>
            /\ Cardinality(remaining) = ret.keep_last
            /\ remaining = Newest(before, ret.keep_last)

\* C8 as amended: with distinct modification times and keep_last = k < N, the
\* artifacts left are the j newest for some j <= k, and when the pass returns
\* j = k exactly when k = 0 or the k newest together are no larger than
\* max_total_bytes (otherwise the size rule prunes further); when an unlink
\* raises in the count rule the pass ends there, with the k newest and the
\* older artifacts not yet unlinked still present.
C8_AtMostKNewest ==
    Pruned => \A before \in {Before}, remaining \in {Remaining} :
        (DistinctMtimes(before) /\ ret.keep_last < Cardinality(before)) =>
            /\ ret.status \in {"ok", "raised_size"} =>
                  \E j \in 0..ret.keep_last : remaining = Newest(before, j)
            /\ ret.status = "ok" =>
                  (remaining = Newest(before, ret.keep_last)
                     <=> \/ ret.keep_last = 0
                         \/ TotalSize(Newest(before, ret.keep_last)) <= ret.max_bytes)
            /\ ret.status = "raised_count" =>
                  /\ Newest(before, ret.keep_last) \subseteq remaining
                  /\ \E f \in remaining \ Newest(before, ret.keep_last) : f.locked

\* several artifacts, keep_last = 1, a size budget that the newest fits in:
\* the older ones are gone
C8_Witness ==
    ret.status = "ok" /\ \E before \in {Before}, remaining \in {Remaining} :
        /\ DistinctMtimes(before)
        /\ Cardinality(before) > 1 /\ ret.keep_last = 1
        /\ Cardinality(remaining) = 1
        /\ remaining = Newest(before, 1)

\* C9: after a pass that returns, the database's remaining artifacts total at
\* most max_total_bytes, or none of them remains.
C9_SizeBound ==
    ret.status \in {"ok", "nodir"} => \A remaining \in {Remaining} :
        \/ TotalSize(remaining) <= ret.max_bytes
        \/ remaining = {}

\* the size rule pruned some artifacts that the count rule had kept, and
\* stopped with artifacts left
C9_Witness ==
    ret.status = "ok" /\ \E before \in {Before}, remaining \in {Remaining} :
        /\ Cardinality(before) <= ret.keep_last
        /\ TotalSize(before) > ret.max_bytes
        /\ remaining # {} /\ remaining # before
        /\ TotalSize(remaining) <= ret.max_bytes

\* C10 as stated (for artifacts that can all be deleted): a pass with
\* keep_last = 0 or max_total_bytes = 0 leaves no artifact of the database
\* and finishes without an error.
C10_ZeroDeletesAll ==
    Pruned => \A before \in {Before}, remaining \in {Remaining} :
        (NoneLocked(before) /\ (ret.keep_last = 0 \/ ret.max_bytes = 0)) =>
            /\ remaining = {}
            /\ ret.status = "ok"

\* C10 as amended: a pass with keep_last = 0 that returns leaves no artifact
\* of the database; a pass with max_total_bytes = 0 that returns leaves only
\* artifacts of size zero, none of them older than a deleted one, and it does
\* leave a size-zero artifact that is the single newest when keep_last >= 1;
\* the pass ends in an error only when an unlink raises, and then that
\* artifact is still present.
C10_ZeroRules ==
    (Pruned /\ (ret.keep_last = 0 \/ ret.max_bytes = 0)) =>
      \A before \in {Before}, remaining \in {Remaining} :
            /\ (ret.status = "ok" /\ ret.keep_last = 0) => remaining = {}
            /\ (ret.status = "ok" /\ ret.max_bytes = 0) =>
                  /\ \A f \in remaining : f.size = 0
                  /\ \A f \in remaining : \A g \in before \ remaining : g.mtime <= f.mtime
                  /\ (\A f \in before : f.size > 0) => remaining = {}
                  /\ \A f \in before :
                        (/\ ret.keep_last >= 1
                         /\ f.size = 0
                         /\ \A g \in before \ {f} : g.mtime < f.mtime) => f \in remaining
            /\ ret.status # "ok" => \E f \in remaining : f.locked
            /\ NoneLocked(before) => ret.status = "ok"

\* max_total_bytes = 0: an artifact of positive size was pruned and a newer
\* artifact of size zero stays
C10_Witness ==
    ret.status = "ok" /\ \E before \in {Before}, remaining \in {Remaining} :
        /\ ret.max_bytes = 0 /\ ret.keep_last >= 1
        /\ remaining # {} /\ remaining # before
        /\ \A f \in remaining : f.size = 0

\* the members of a list
Members(fs) == {fs[i] : i \in DOMAIN fs}

\* the keep_last newest of a newest-first list
KeepLastNewest(order) ==
    SubSeq(order, 1, IF ret.keep_last < Len(order) THEN ret.keep_last
                     ELSE Len(order))

\* the lengths of the prefixes of a list whose sizes total at most max_bytes
Fitting(kept) ==
    {j \in 0..Len(kept) : SumSizes(SubSeq(kept, 1, j)) <= ret.max_bytes}

\* the longest prefix of a list whose sizes total at most max_bytes
LongestFitting(kept) ==
    SubSeq(kept, 1, CHOOSE j \in Fitting(kept) : \A i \in Fitting(kept) : i <= j)

\* C22: after a pass that returns, the artifacts of the database left are the
\* longest prefix, in a newest-first order of the artifacts there were, of
\* the keep_last newest whose sizes total at most max_total_bytes (artifacts
\* of equal modification time are in the order the sort left them in), so
\* that the size rule deleted nothing once the total was within the bound;
\* and no artifact left is older than a deleted one.
C22_SurvivorsAreLongestPrefix ==
    ret.status = "ok" => \A before \in {Before}, remaining \in {Remaining} :
        /\ \E order \in NewestFirst(before) :
              remaining = Members(LongestFitting(KeepLastNewest(order)))
        /\ \A f \in remaining, g \in before \ remaining : f.mtime >= g.mtime

\* three artifacts, of which the count rule deleted the oldest and the size
\* rule the second, leaving the newest within the bound
C22_Witness ==
    ret.status = "ok" /\ \E before \in {Before}, remaining \in {Remaining} :
        /\ Cardinality(before) = 3
        /\ ret.keep_last = 2
        /\ TotalSize(Newest(before, 2)) > ret.max_bytes
        /\ remaining = Newest(before, 1)
        /\ TotalSize(remaining) <= ret.max_bytes
        /\ TotalSize(remaining) > 0


\* C11: a deletion that fails does not abort the pass: the pass returns, and
\* every other artifact that the count rule selects (those beyond the
\* keep_last newest) is deleted.
C11_DeletionFailureIsolated ==
    Pruned => \A before \in {Before}, remaining \in {Remaining} :
        DistinctMtimes(before) =>
            /\ ret.status = "ok"
            /\ \A f \in before \ Newest(before, ret.keep_last) :
                  ~f.locked => f \notin remaining

\* the databases of the host other than the one backed up
OtherDBs == {DbB, DbC}

\* name is <db_name>-<DD-MM-YYYY>-<N>.sql.gz for a date and a number N
IsArtifactOf(name, db_name) ==
    \E day \in 0..MaxDay :
        /\ GlobMatch(SequencePattern(db_name, date_str(day)), name)
        /\ IntParses(num_part(name))
        /\ name = filename(db_name, date_str(day), IntOf(num_part(name)))

OfOtherDatabase(f, db_name) ==
    \E other \in OtherDBs \ {db_name} : IsArtifactOf(f.name, other)

\* C12: a retention pass for a database leaves every artifact of a different
\* database in place, also one whose name starts with the database's name,
\* and the sequence number allocated for the database is the one that would
\* be allocated without the other databases' artifacts.
C12_OtherDatabasesUntouched ==
    /\ Pruned => \A f \in ret.before : OfOtherDatabase(f, ret.db) => f \in files
    /\ Allocated =>
          last.n = sequence_n({f \in last.before : ~OfOtherDatabase(f, last.db)},
                              last.db, date_str(last.day))

\* C12 for a database whose name continues DbA's with another character
\* (checked as a comparison, no claim rests on it)
SuffixedDatabaseUntouched ==
    /\ Pruned => \A f \in ret.before : IsArtifactOf(f.name, DbB) => f \in files
    /\ Allocated =>
          last.n = sequence_n({f \in last.before : ~IsArtifactOf(f.name, DbB)},
                              last.db, date_str(last.day))

(***************************************************************************)
(* Properties of the scheduler.                                            *)
(***************************************************************************)
\* the server has a FixedTime policy whose string parses / does not parse
WellFormed(server) ==
    server.schedule # Absent /\ \A x \in server.schedule : strptime_ok(x)

Malformed(server) ==
    server.schedule # Absent /\ \A x \in server.schedule : ~strptime_ok(x)

\* the server has an IntervalHours policy (and no schedule, which would win)
UnderInterval(server) ==
    server.schedule = Absent /\ server.interval_hours # Absent

\* the trigger time of the schedules used here, in minutes after midnight
TriggerMinute(server) ==
    IF Time0200 \in server.schedule THEN 2 * 60 ELSE 8 * 60 + 5

\* the trigger instant of the server's policy on the day of t
TriggerInstant(server, t) == (t \div 1440) * 1440 + TriggerMinute(server)

\* the servers with an entry that yields the database (by name or by "all")
Producers(db_name) ==
    {s \in DOMAIN servers :
        \E e \in DOMAIN databases(servers[s]) :
            databases(servers[s])[e] \in {db_name, All}}

SameDay(f, g) == f.at \div 1440 = g.at \div 1440

\* C13 as stated: for a key under well-formed FixedTime policies the daemon
\* loop invokes run_backup at most once per calendar day, also when several
\* database entries or server entries yield the key.
C13_OncePerDay ==
    command = "daemon" =>
        \A f \in fires, g \in fires :
            (/\ f.key = g.key /\ SameDay(f, g)
             /\ WellFormed(servers[f.s]) /\ WellFormed(servers[g.s])) => f = g

\* C13 as amended: among the passes that begin on one calendar day, the
\* entries that yield a key under well-formed FixedTime policies invoke
\* run_backup for it at most once per distinct trigger time; so a key all of
\* whose entries carry the same trigger time is invoked at most once a day,
\* however many entries yield it and however often the loop polls.
C13_OncePerDayAndTrigger ==
    command = "daemon" =>
        \A f \in fires, g \in fires :
            (f.key = g.key /\ SameDay(f, g)) =>
                /\ (/\ WellFormed(servers[f.s]) /\ WellFormed(servers[g.s])
                    /\ TriggerMinute(servers[f.s]) = TriggerMinute(servers[g.s]))
                      => f = g
                /\ (\A s \in Producers(f.key[2]), r \in Producers(f.key[2]) :
                       /\ WellFormed(servers[s])
                       /\ TriggerMinute(servers[s]) = TriggerMinute(servers[r]))
                      => f = g

\* two server entries with the same trigger time yield one key: in one pass
\* the first fires it and the second finds it not due
C13_Witness ==
    /\ command = "daemon"
    /\ \E i \in DOMAIN evals, j \in DOMAIN evals :
          /\ i < j
          /\ evals[i].key = evals[j].key
          /\ evals[i].s # evals[j].s
          /\ WellFormed(servers[evals[i].s]) /\ WellFormed(servers[evals[j].s])
          /\ evals[i].due /\ ~evals[j].due
          /\ evals[j].prior = {now}

\* C14: under a FixedTime policy a unit is Due at a tick exactly when now is
\* at or after the day's trigger instant and no last_run is recorded or
\* last_run is before that instant; with trigger 02:00 it is Due at 02:05
\* with no last_run, not Due at 02:10 after last_run = 02:05 of that day, and
\* Due at 02:05 of the next day.
C14_FixedTimeDue ==
    \A i \in DOMAIN evals :
      \A ev \in {evals[i]} :
        WellFormed(servers[ev.s]) =>
          \A trigger \in {TriggerInstant(servers[ev.s], ev.at)} :
            /\ ev.due <=> /\ ev.at >= trigger
                          /\ (ev.prior = {} \/ \A p \in ev.prior : p < trigger)
            /\ servers[ev.s].schedule = {Time0200} =>
                  /\ (ev.at % 1440 = 125 /\ ev.prior = {}) => ev.due
                  /\ (ev.at % 1440 = 130 /\ ev.prior = {ev.at - 5}) => ~ev.due
                  /\ (ev.at % 1440 = 125 /\ ev.prior = {ev.at - 1440}) => ev.due

\* trigger 02:00: Due at 02:05 of the day after a run recorded at 02:05
C14_Witness ==
    \E i \in DOMAIN evals :
        /\ servers[evals[i].s].schedule = {Time0200}
        /\ evals[i].at = 1440 + 125
        /\ evals[i].prior = {125}
        /\ evals[i].due

\* C15: under a well-formed FixedTime policy, whenever a pass that begins at
\* or after the day's trigger instant checks a unit, the unit has been fired
\* on that day at or after the trigger, in this pass or an earlier one; so
\* the first such pass of the day fires it, however late it begins.
C15_FiresAtFirstTick ==
    command = "daemon" =>
      \A i \in DOMAIN evals :
        \A ev \in {evals[i]} :
          \A trigger \in {TriggerInstant(servers[ev.s], ev.at)} :
            (WellFormed(servers[ev.s]) /\ ev.at >= trigger) =>
                /\ \E f \in fires :
                      f.key = ev.key /\ trigger <= f.at /\ f.at <= ev.at
                /\ (\A f \in fires :
                       f.key = ev.key => ~(trigger <= f.at /\ f.at < ev.at))
                      => \E f \in fires : f.key = ev.key /\ f.at = ev.at

\* trigger 02:00 and a first pass of the day at 08:04: the unit is fired
C15_Witness ==
    /\ command = "daemon"
    /\ \E i \in DOMAIN evals :
          /\ servers[evals[i].s].schedule = {Time0200}
          /\ evals[i].at % 1440 = 484
          /\ evals[i].due
          /\ \A f \in fires :
                f.key = evals[i].key => (f.at < evals[i].at - 484 \/ f.at = evals[i].at)

\* C16: under an IntervalHours(n) policy a unit is Due at a tick exactly when
\* no last_run is recorded or now - last_run >= n hours; with n = 6 it is Due
\* when never run, not Due 5h59m after a run, Due 6h00m after it; and two runs
\* of a key whose entries all carry that policy are at least n hours apart.
C16_IntervalDue ==
    /\ \A i \in DOMAIN evals :
        \A ev \in {evals[i]} :
          UnderInterval(servers[ev.s]) =>
            \A n \in servers[ev.s].interval_hours :
              /\ ev.due <=> (ev.prior = {} \/ \A p \in ev.prior : ev.at - p >= n * 60)
              /\ n = 6 =>
                    /\ ev.prior = {} => ev.due
                    /\ ev.prior = {ev.at - 359} => ~ev.due
                    /\ ev.prior = {ev.at - 360} => ev.due
    /\ command = "daemon" =>
          \A f \in fires, g \in fires :
              (/\ f.key = g.key /\ f # g
               /\ \A s \in Producers(f.key[2]) : UnderInterval(servers[s])) =>
                  \A n \in servers[f.s].interval_hours :
                      f.at - g.at >= n * 60 \/ g.at - f.at >= n * 60

\* n = 6: Due exactly 6h00m after the recorded run
C16_Witness ==
    \E i \in DOMAIN evals :
        /\ UnderInterval(servers[evals[i].s])
        /\ evals[i].prior = {evals[i].at - 360}
        /\ evals[i].due

\* C17: after the daemon loop has invoked run_backup for a Due unit,
\* last_run[key] holds the time of that tick (or of a later run), whether the
\* dump succeeded or failed.
C17_LastRunRecorded ==
    command = "daemon" =>
        \A f \in fires : f.key \in DOMAIN last_run /\ last_run[f.key] >= f.at

\* C17 for the invocations that end in the success or the failure message
\* (checked as a comparison, no claim rests on it)
LastRunRecordedOnReturn ==
    command = "daemon" =>
        \A f \in fires :
            f.outcome # "raised" => f.key \in DOMAIN last_run /\ last_run[f.key] >= f.at

\* C18: a unit whose server has a malformed FixedTime string is never fired,
\* also when the server configures an interval too; the loop ends only by an
\* exception of run_backup, never by the parse; and a pass that completes has
\* checked every named entry of every server.
C18_MalformedNeverFires ==
    command = "daemon" =>
        /\ \A f \in fires : ~Malformed(servers[f.s])
        /\ \A i \in DOMAIN evals : Malformed(servers[evals[i].s]) => ~evals[i].due
        /\ loop.pc = "crashed" =>
              /\ last.propagated
              /\ evals # <<>> /\ evals[Len(evals)].due
        /\ (loop.pc = "sleep" /\ now > 0) =>
              \A s \in DOMAIN servers :
                \A e \in DOMAIN databases(servers[s]) :
                    databases(servers[s])[e] # All =>
                        \E i \in DOMAIN evals : evals[i].s = s /\ evals[i].e = e

\* a completed pass in which a unit with a malformed schedule and an interval
\* was checked and not fired, and a unit of the next server was fired
C18_Witness ==
    /\ command = "daemon"
    /\ loop.pc = "sleep"
    /\ \E i \in DOMAIN evals, j \in DOMAIN evals :
          /\ i < j
          /\ Malformed(servers[evals[i].s])
          /\ servers[evals[i].s].interval_hours # Absent
          /\ ~evals[i].due
          /\ evals[j].s # evals[i].s
          /\ evals[j].due

\* C19: no failure of a run_backup invocation leaves run_backup: neither
\* the daemon loop nor run_all_now is ended by one.
C19_FailureContained ==
    loop.pc # "crashed" /\ ~last.propagated

(***************************************************************************)
(* Properties of restore_backup.                                           *)
(***************************************************************************)
Restored == restore.outcome # "none"

\* C20: every invocation of restore_backup emits exactly one notification
\* event, whatever its outcome: success, client failure, invalid reference,
\* missing artifact file, unknown host.
C20_OneRestoreEvent ==
    Restored => Len(restore.events) = 1

\* C20 for the invocations that reach the external commands
\* (checked as a comparison, no claim rests on it)
OneRestoreEventInPipeline ==
    restore.outcome \in {"success", "client_failed", "exception"} =>
        Len(restore.events) = 1


\* the last restore got past the checks of its input, into the try block
Accepted == restore.outcome \in {"success", "client_failed", "exception"}

\* the table query of a clean restore failed: it exited non-zero, or could
\* not be run at all
EnumerationFailed ==
    restore.clean /\ restore.ext.query \in {"failed", "cannot_start"}

\* the drop batch of a clean restore failed: it exited non-zero, or could
\* not be run at all
DropFailed ==
    /\ restore.clean
    /\ restore.ext.query = "tables"
    /\ (restore.ext.drop = "cannot_start" \/ restore.ext.drop_rc # 0)

\* the decompressor was started, with the client or before the client
\* could not be
Streamed == \E i \in DOMAIN restore.started : restore.started[i] = "zcat"

\* the outcome is the one the client's exit status gives
ByClientExit ==
    restore.ext.client = "exited" =>
        restore.outcome = IF restore.ext.client_rc = 0 THEN "success"
                          ELSE "client_failed"

\* C21: in a clean restore whose table enumeration or drop batch fails, the
\* restore still streams the artifact into the client, the failure is only a
\* warning, and the outcome is the one the client's exit status gives.
C21_CleanFailureOnlyWarns ==
    (Accepted /\ (EnumerationFailed \/ DropFailed)) =>
        /\ Streamed
        /\ restore.warnings # {}
        /\ ByClientExit

\* the part that holds: an enumeration or a drop batch that ran and exited
\* non-zero leaves a warning, and the artifact is streamed into the client
NonZeroExitOnlyWarns ==
    (/\ Accepted
     /\ restore.clean
     /\ \/ restore.ext.query = "failed"
        \/ restore.ext.query = "tables" /\ restore.ext.drop = "exited"
                                        /\ restore.ext.drop_rc # 0) =>
        /\ Streamed
        /\ restore.warnings # {}
        /\ ByClientExit


\* the reference of the last restore is not of the form host/name
InvalidReference == SplitCount(restore.ref, "/") # 2

\* the file the reference of the last restore names: .sql.gz is appended to
\* the name unless it ends with it
ReferencedFile ==
    LET name == AfterFirst(restore.ref, "/")
    IN IF EndsWith(name, Ext) THEN name ELSE name \o Ext

\* no such file is in the directory of the host the reference names
ArtifactAbsent ==
    ~(/\ SplitFirst(restore.ref, "/") = Host
      /\ host_dir
      /\ \E f \in files : f.name = ReferencedFile)

\* no server of the configuration has the host the reference names
NoServerForHost ==
    \A i \in DOMAIN servers : servers[i].host # SplitFirst(restore.ref, "/")

InputRejected ==
    Restored /\ (InvalidReference \/ ArtifactAbsent \/ NoServerForHost)

\* C23: a restore whose reference is not of the form host/name, whose
\* artifact file is absent, or whose host has no server entry returns before
\* it starts any external process (no table query, no drop, no decompressor,
\* no client) and never enters the try block, also with a clean restore.
C23_RejectedStartsNothing ==
    InputRejected =>
        /\ restore.started = <<>>
        /\ restore.warnings = {}
        /\ ~Accepted

\* a clean restore of an existing artifact was asked for a host that has no
\* server entry, and was rejected
C23_Witness ==
    /\ InputRejected
    /\ restore.clean
    /\ ~InvalidReference
    /\ ~ArtifactAbsent
    /\ NoServerForHost
    /\ servers # <<>>
    /\ restore.outcome = "unknown_host"
    /\ restore.started = <<>>

====
